---- MODULE Spec2Model ----
(***************************************************************************)
(* Listing editor: the product fetcher hook (useFetchProductById over the  *)
(* SWR data hook) and the edit modal (EditProductModal) with its submit    *)
(* flow.  Two specifications share this module:                            *)
(*   SpecFetch - the fetcher hook, its props and the SWR request cache;    *)
(*   Spec      - the modal, its React state, renders and collaborators.    *)
(***************************************************************************)
EXTENDS Integers, Sequences, FiniteSets, TLC

\* ------------------------------------------------------------------ bounds
\* Requests the fetcher may start in one run.
MaxReq == 4
\* Submissions that pass handleSubmit's guard in one run.
MaxSubs == 2
\* Files the user selects in one run.
MaxFiles == 1
MaxOps == 2

\* --------------------------------------------------------------- variables
VARIABLES
    \* ---- useFetchProductById (use-fetch-product-by-id.ts)
    mounted,      \* the hook has rendered and committed its effects once
    productId,    \* prop: "" is the empty id
    enabled,      \* prop
    swrData,      \* SWR cache, per key: "undef" | "envelope" | "nodata"
    swrError,     \* SWR cache, per key: an error is recorded
    FETCH,        \* SWR's concurrent-request marker per key: 0 or the start stamp
    requests,     \* requests in flight: records [key, ts]
    rafPending,   \* keys whose deferred (requestAnimationFrame) revalidation is due
    retryPending, \* keys whose error retry timer is due
    nreq,         \* requests started so far (also the stamp of the latest one)
    \* ---- EditProductModal: props
    isOpen,          \* prop: the caller's visibility flag
    product,         \* prop: a fallback product is supplied
    externalLoading, \* prop loading: "undefined" | "true" | "false"
    \* ---- EditProductModal: hooks
    fetched,         \* useProductData(id): "loading" | "listing" | "none" | "error"
    formData,        \* useProductForm: NoForm or the field values
    images,          \* useImageManager: the ordered entries [id, status]
    isUploading,     \* useImageManager
    uploadError,     \* useImageManager
    filesAdded,      \* files selected so far
    showSuccess,     \* useState(false)
    isSubmitting,    \* useState(false)
    rendered,        \* what the last render captured (the handlers' closure)
    subs,            \* per submission: where its handleSubmit call stands
    toasts,          \* toast.success / toast.error calls so far
    \* ---- EditProductModal: what the dedicated specifications observe
    externalError,   \* prop error: "undefined" | "null" | "false" | "error"
    sent,            \* the argument of the latest onUpdate call
    opsDone,         \* remove / setMain / reorder operations so far
    \* ---- observation
    event            \* the fetcher's handler or callback that ran last

fetchVars == <<mounted, productId, enabled, swrData, swrError, FETCH, requests,
               rafPending, retryPending, nreq>>
modalVars == <<isOpen, product, externalLoading, fetched, formData, images,
               isUploading, uploadError, filesAdded, showSuccess, isSubmitting,
               rendered, subs, toasts>>
auxVars == <<externalError, sent, opsDone>>
vars == <<fetchVars, modalVars, auxVars, event>>

\* ===================================================== the product fetcher
Ids == {"p1", "p2"}
PropIds == Ids \cup {""}
NoKey == [path |-> "", id |-> ""]

\* `/api/listing-details?id=${productId}`
ListingUrl(pid) == [path |-> "/api/listing-details?id=", id |-> pid]
Keys == {ListingUrl(p) : p \in Ids}

\* apiUrl, mutated: the enabled flag is forgotten
apiUrlIgnoringEnabled(pid, en) == IF pid # "" THEN ListingUrl(pid) ELSE NoKey

\* const apiUrl = enabled && productId ? `/api/...` : null
apiUrl(pid, en) == IF en /\ pid # "" THEN ListingUrl(pid) ELSE NoKey

\* SWR's request bookkeeping as one value, so that a commit can thread it
\* through the layout effect and the passive effect in order.
SwrState == [FETCH |-> FETCH, requests |-> requests, nreq |-> nreq]

\* revalidate(opts): starts a request unless one is marked and opts.dedupe
revalidate(st, k, dedupe) ==
    IF k = NoKey THEN st
    ELSE IF st.FETCH[k] # 0 /\ dedupe THEN st
    ELSE [FETCH    |-> [st.FETCH EXCEPT ![k] = st.nreq + 1],
          requests |-> st.requests \cup {[key |-> k, ts |-> st.nreq + 1]},
          nreq     |-> st.nreq + 1]

\* refresh = the bound mutate(): a null key returns at once; otherwise the
\* request marker is deleted and the key revalidated without dedupe.
refresh(st, k) ==
    IF k = NoKey THEN st
    ELSE revalidate([st EXCEPT !.FETCH[k] = 0], k, FALSE)

\* SWR's layout effect after mount or a key change: revalidate at once when
\* the key has no data, else on the next animation frame (both deduped).
InitialRevalidate(st, k) ==
    IF k # NoKey /\ swrData[k] = "undef" THEN revalidate(st, k, TRUE) ELSE st

DeferredKeys(k, keyChanged) ==
    IF keyChanged /\ k # NoKey /\ swrData[k] # "undef" THEN {k} ELSE {}

\* useEffect(() => { if (productId && enabled) void refresh() }, [...])
RefreshEffect(st, pid, en) ==
    IF pid # "" /\ en THEN refresh(st, apiUrl(pid, en)) ELSE st

\* One render with props (pid, en) and the effects it commits.
Commit(pid, en, keyChanged) ==
    LET k  == apiUrl(pid, en)
        s1 == IF keyChanged THEN InitialRevalidate(SwrState, k) ELSE SwrState
        s2 == RefreshEffect(s1, pid, en)
    IN  /\ s2.nreq <= MaxReq
        /\ FETCH' = s2.FETCH
        /\ requests' = s2.requests
        /\ nreq' = s2.nreq
        /\ rafPending' = rafPending \cup DeferredKeys(k, keyChanged)
        /\ productId' = pid
        /\ enabled' = en

Mount ==
    /\ ~mounted
    /\ mounted' = TRUE
    /\ Commit(productId, enabled, TRUE)
    /\ UNCHANGED <<modalVars, auxVars>>
    /\ event' = "mount"
    /\ UNCHANGED <<swrData, swrError, retryPending>>

SetProps(pid, en) ==
    /\ mounted
    /\ <<pid, en>> # <<productId, enabled>>
    /\ Commit(pid, en, apiUrl(pid, en) # apiUrl(productId, enabled))
    /\ UNCHANGED <<modalVars, auxVars>>
    /\ event' = "setProps"
    /\ UNCHANGED <<mounted, swrData, swrError, retryPending>>

\* const refetch = () => { if (enabled) void refresh() }
refetch ==
    /\ mounted
    /\ LET s == IF enabled THEN refresh(SwrState, apiUrl(productId, enabled))
                ELSE SwrState
       IN  /\ s.nreq <= MaxReq
           /\ FETCH' = s.FETCH
           /\ requests' = s.requests
           /\ nreq' = s.nreq
    /\ UNCHANGED <<modalVars, auxVars>>
    /\ event' = "refetch"
    /\ UNCHANGED <<mounted, productId, enabled, swrData, swrError, rafPending,
                   retryPending>>

\* The deferred softRevalidate of key k runs: nothing if the hook has no key
\* now (unmountedRef), else a deduped revalidation of k.
RafFire(k) ==
    /\ k \in rafPending
    /\ rafPending' = rafPending \ {k}
    /\ LET s == IF apiUrl(productId, enabled) = NoKey THEN SwrState
                ELSE revalidate(SwrState, k, TRUE)
       IN  /\ s.nreq <= MaxReq
           /\ FETCH' = s.FETCH
           /\ requests' = s.requests
           /\ nreq' = s.nreq
    /\ UNCHANGED <<modalVars, auxVars>>
    /\ event' = "raf"
    /\ UNCHANGED <<mounted, productId, enabled, swrData, swrError, retryPending>>

\* jsonFetcher(url): what the awaited fetcher(url) gives decides the outcome.
\*   "falsy"    -> throw new Error("No response from server")
\*   "throws"   -> the fetcher itself rejects
\*   "envelope" -> { data, ... };  "nodata" -> an object without data
Responses == {"envelope", "nodata", "falsy", "throws"}
\* jsonFetcher, mutated: without `if (!res) throw`, a falsy response is returned
jsonFetcherNoResponseCheck(res) ==
    IF res = "throws" THEN [ok |-> FALSE, value |-> "undef"]
    ELSE [ok |-> TRUE, value |-> res]

\* jsonFetcher: a rejected fetcher(url) rejects it; `if (!res) throw new Error(..)`;
\* anything else is returned as the response envelope.
jsonFetcher(res) ==
    IF res \in {"falsy", "throws"} THEN [ok |-> FALSE, value |-> "undef"]
    ELSE [ok |-> TRUE, value |-> res]

\* A request settles.  A result is written to the cache only by the latest
\* request of its key (the one whose stamp the marker holds); an error is
\* recorded whichever request it comes from, deletes the marker if it is the
\* latest, and arms the retry timer while the key is the hook's key.
Settle(r, res) ==
    /\ r \in requests
    /\ requests' = requests \ {r}
    /\ LET out    == jsonFetcher(res)
           latest == FETCH[r.key] = r.ts
           shown  == apiUrl(productId, enabled) = r.key
       IN  IF out.ok
           THEN /\ swrData' = IF latest THEN [swrData EXCEPT ![r.key] = out.value]
                              ELSE swrData
                /\ swrError' = IF latest THEN [swrError EXCEPT ![r.key] = FALSE]
                               ELSE swrError
                /\ UNCHANGED <<FETCH, retryPending>>
           ELSE /\ swrError' = [swrError EXCEPT ![r.key] = TRUE]
                /\ FETCH' = IF latest THEN [FETCH EXCEPT ![r.key] = 0] ELSE FETCH
                /\ retryPending' = IF shown THEN retryPending \cup {r.key}
                                   ELSE retryPending
                /\ UNCHANGED swrData
    /\ UNCHANGED <<modalVars, auxVars>>
    /\ event' = res
    /\ UNCHANGED <<mounted, productId, enabled, rafPending, nreq>>

\* cleanupState after dedupingInterval: the marker of a finished request goes.
\* An animation frame is due long before the interval ends.
DedupeExpire(k) ==
    /\ FETCH[k] # 0
    /\ \A r \in requests : r.key # k
    /\ rafPending = {}
    /\ FETCH' = [FETCH EXCEPT ![k] = 0]
    /\ UNCHANGED <<modalVars, auxVars>>
    /\ event' = "dedupeExpire"
    /\ UNCHANGED <<mounted, productId, enabled, swrData, swrError, requests,
                   rafPending, retryPending, nreq>>

\* onErrorRetry's timer: revalidates (deduped) through the key's subscribed
\* revalidator, which exists only while the hook still renders that key.
RetryFire(k) ==
    /\ k \in retryPending
    /\ retryPending' = retryPending \ {k}
    /\ LET s == IF apiUrl(productId, enabled) = k
                THEN revalidate(SwrState, k, TRUE) ELSE SwrState
       IN  /\ s.nreq <= MaxReq
           /\ FETCH' = s.FETCH
           /\ requests' = s.requests
           /\ nreq' = s.nreq
    /\ UNCHANGED <<modalVars, auxVars>>
    /\ event' = "retry"
    /\ UNCHANGED <<mounted, productId, enabled, swrData, swrError, rafPending>>

\* What the hook returns.
productData == IF apiUrl(productId, enabled) = NoKey THEN "undef"
               ELSE swrData[apiUrl(productId, enabled)]
newProductData == IF productData = "envelope" THEN "listing" ELSE "undef"
errorProduct == apiUrl(productId, enabled) # NoKey
                /\ swrError[apiUrl(productId, enabled)]
isLoadingProduct ==
    /\ apiUrl(productId, enabled) # NoKey
    /\ productData = "undef"
    /\ \E r \in requests : r.key = apiUrl(productId, enabled)

\* ============================================================ the modal
Titles == {"Lamp", "Desk"}
\* A form value of `negotiable`: a boolean, a string, or nothing at all.
Bool(b) == [type |-> "boolean", b |-> b, s |-> ""]
Str(t) == [type |-> "string", b |-> FALSE, s |-> t]
Undefined == [type |-> "undefined", b |-> FALSE, s |-> ""]
NegotiableValues ==
    {Bool(TRUE), Bool(FALSE), Str("true"), Str("false"), Str("yes"), Str(""), Undefined}

NoForm == [present |-> FALSE, title |-> "", negotiable |-> Undefined]
\* The listing the fetch (or the fallback prop) gives: its fields and images.
ListingForm == [present |-> TRUE, title |-> "Lamp", negotiable |-> Bool(TRUE)]
\* n existing images of a listing, in position order.
RemoteImages(n) == [i \in 1..n |-> [id |-> 1 - i, status |-> "remote", position |-> i - 1]]
ListingImages == RemoteImages(1)
\* maxImages, mutated: one more than the modal configures
maxImagesOffByOne == 10 + 1

\* maxImages: 10
maxImages == 10

Slots == 1..MaxSubs
IdleSub == [pc |-> "idle", cancels |-> 0]

\* isLoading, mutated: || in place of ??, so an explicit false does not override
isLoadingWithOr == externalLoading = "true" \/ fetched = "loading"

\* const isLoading = externalLoading ?? isLoadingProduct
isLoading ==
    IF externalLoading = "undefined" THEN fetched = "loading"
    ELSE externalLoading = "true"

\* const loadError = externalError ?? errorProduct
loadError ==
    IF externalError \in {"undefined", "null"}
    THEN (IF fetched = "error" THEN "error" ELSE "undefined")
    ELSE externalError

\* const productData = newProductData || product
hasProductData == fetched = "listing" \/ product

\* The render guards, mutated: the no-data guard is forgotten.
ViewWithoutNoDataGuard ==
    IF ~isOpen THEN "hidden"
    ELSE IF isLoading THEN "loading"
    ELSE "form"

\* The render guards, in order: !isOpen, isLoading, !productData || !formData.
View ==
    IF ~isOpen THEN "hidden"
    ELSE IF isLoading THEN "loading"
    ELSE IF ~hasProductData \/ ~formData.present THEN "error"
    ELSE "form"

\* The modal's state as the design names it.
ModalState ==
    IF View # "form" THEN View
    ELSE IF isSubmitting THEN "submitting"
    ELSE IF showSuccess THEN "success"
    ELSE "ready"

\* {loadError ? "Failed to load product" : "Product not found"}
PanelMessage ==
    IF View # "error" THEN ""
    ELSE IF loadError = "error" THEN "Failed to load product"
    ELSE "Product not found"

\* What a render captures for the handlers it creates and the controls it draws.
Snapshot == [view |-> View, isSubmitting |-> isSubmitting,
             isUploading |-> isUploading, hasForm |-> formData.present,
             message |-> PanelMessage]

Render ==
    /\ rendered # Snapshot
    /\ rendered' = Snapshot
    /\ UNCHANGED <<fetchVars, event, auxVars, isOpen, product, externalLoading, fetched, formData,
                   images, isUploading, uploadError, filesAdded, showSuccess,
                   isSubmitting, subs, toasts>>

\* The caller shows the modal.
Open ==
    /\ ~isOpen
    /\ isOpen' = TRUE
    /\ UNCHANGED <<fetchVars, event, auxVars, product, externalLoading, fetched, formData, images,
                   isUploading, uploadError, filesAdded, showSuccess, isSubmitting,
                   rendered, subs, toasts>>

\* onCancel(): the caller hides the modal.
onCancel == isOpen' = FALSE

\* useProductData settles; the form and the image list are seeded from the
\* first listing that becomes available.
FetchSettle(out) ==
    /\ fetched = "loading"
    /\ fetched' = out
    /\ IF out = "listing" /\ ~formData.present
       THEN formData' = ListingForm /\ images' = ListingImages
       ELSE UNCHANGED <<formData, images>>
    /\ UNCHANGED <<fetchVars, event, auxVars, isOpen, product, externalLoading, isUploading,
                   uploadError, filesAdded, showSuccess, isSubmitting, rendered,
                   subs, toasts>>

\* handleChange on the title input.
handleChange(v) ==
    /\ rendered.view = "form"
    /\ formData.present
    /\ v # formData.title
    /\ formData' = [formData EXCEPT !.title = v]
    /\ UNCHANGED <<fetchVars, event, auxVars, isOpen, product, externalLoading, fetched, images,
                   isUploading, uploadError, filesAdded, showSuccess, isSubmitting,
                   rendered, subs, toasts>>

\* ---- the image manager
Statuses(sts) == {i \in 1..Len(images) : images[i].status \in sts}
SetStatus(from, to) ==
    [i \in 1..Len(images) |->
        IF images[i].status = from THEN [images[i] EXCEPT !.status = to]
        ELSE images[i]]

\* handleFileSelect: a file too large, or one more than maxImages, is
\* reported and not added; an accepted file becomes a pending entry at the end.
handleFileSelect(tooLarge) ==
    /\ rendered.view = "form"
    /\ filesAdded < MaxFiles
    /\ filesAdded' = filesAdded + 1
    /\ IF tooLarge \/ Len(images) >= maxImages
       THEN uploadError' = TRUE /\ UNCHANGED images
       ELSE /\ images' = Append(images, [id |-> filesAdded + 1, status |-> "pending",
                                         position |-> Len(images)])
            /\ uploadError' = FALSE
    /\ UNCHANGED <<fetchVars, event, auxVars, isOpen, product, externalLoading, fetched, formData,
                   isUploading, showSuccess, isSubmitting, rendered, subs, toasts>>

\* The manager hands its pending entries to onUpload (uploadImages).
beginUpload ==
    /\ ~isUploading
    /\ Statuses({"pending"}) # {}
    /\ images' = SetStatus("pending", "uploading")
    /\ isUploading' = TRUE
    /\ uploadError' = FALSE
    /\ UNCHANGED <<fetchVars, event, auxVars, isOpen, product, externalLoading, fetched, formData,
                   filesAdded, showSuccess, isSubmitting, rendered, subs, toasts>>

\* uploadImages settles: the whole batch is uploaded, or the whole batch failed.
UploadSettle(ok) ==
    /\ isUploading
    /\ isUploading' = FALSE
    /\ images' = SetStatus("uploading", IF ok THEN "uploaded" ELSE "failed")
    /\ uploadError' = ~ok
    /\ UNCHANGED <<fetchVars, event, auxVars, isOpen, product, externalLoading, fetched, formData,
                   filesAdded, showSuccess, isSubmitting, rendered, subs, toasts>>

\* The entries in list order, their positions counted again from zero.
Renumber(seq) == [i \in 1..Len(seq) |-> [seq[i] EXCEPT !.position = i - 1]]
RemoveAt(seq, i) == SubSeq(seq, 1, i - 1) \o SubSeq(seq, i + 1, Len(seq))
\* Entry i taken out and put back as the j-th; the entries between shift by one.
MoveTo(seq, i, j) ==
    LET rest == RemoveAt(seq, i)
    IN  SubSeq(rest, 1, j - 1) \o <<seq[i]>> \o SubSeq(rest, j, Len(rest))

\* The entries a user acts on: the first, the second and the last.
Picks == {1, 2, Len(images)} \cap (1..Len(images))

ImageOp(list) ==
    /\ rendered.view = "form"
    /\ opsDone < MaxOps
    /\ opsDone' = opsDone + 1
    /\ images' = Renumber(list)
    /\ UNCHANGED <<fetchVars, event, externalError, sent, isOpen, product,
                   externalLoading, fetched, formData, isUploading, uploadError,
                   filesAdded, showSuccess, isSubmitting, rendered, subs, toasts>>

\* removeImage: the entry is deleted; the first remaining entry is main.
removeImage(i) == i \in Picks /\ ImageOp(RemoveAt(images, i))

\* setMainImage: the entry moves to position 0, the others shift back by one.
setMainImage(i) == i \in Picks /\ ImageOp(MoveTo(images, i, 1))

\* handleDrop: the dragged entry i is dropped on position j.
handleDrop(i, j) == i \in Picks /\ j \in Picks /\ i # j /\ ImageOp(MoveTo(images, i, j))

\* getImageUrls(): the entries' URLs in position order; an entry not yet
\* uploaded has only its local preview.
EntryUrl(e) ==
    [kind |-> IF e.status \in {"remote", "uploaded"} THEN "hosted" ELSE "local",
     n |-> e.id]
getImageUrls == [i \in 1..Len(images) |-> EntryUrl(images[i])]

\* ---- the submit flow
\* disabled={isSubmitting || isUploading} on the Cancel and the submit button
ButtonsDisabled == rendered.isSubmitting \/ rendered.isUploading

\* if (!formData || isSubmitting) return;  -- read from the handler's closure
SubmitGuardPasses == rendered.hasForm /\ ~rendered.isSubmitting

\* negotiable, mutated: coerced by truthiness, so any non-empty string is true
negotiableByTruthiness ==
    CASE formData.negotiable.type = "boolean" -> formData.negotiable.b
      [] formData.negotiable.type = "string"  -> formData.negotiable.s # ""
      [] OTHER                                -> FALSE

\* negotiable: typeof formData.negotiable === "boolean"
\*               ? formData.negotiable : formData.negotiable === "true"
negotiable ==
    IF formData.negotiable.type = "boolean"
    THEN formData.negotiable.b
    ELSE formData.negotiable.type = "string" /\ formData.negotiable.s = "true"

\* reqBody, mutated: the image ids count from one
reqBodyIdsFromOne ==
    [title      |-> formData.title,
     negotiable |-> negotiable,
     images     |-> [i \in 1..Len(getImageUrls) |->
                        [imageUrl |-> getImageUrls[i], id |-> <<"image-", i>>]]]

\* const reqBody = { title: formData.title || formData.name, negotiable: ...,
\*   images: imageUrls.map((url, index) => ({imageUrl: url, id: `image-${index}`})) }
reqBody ==
    [title      |-> formData.title,
     negotiable |-> negotiable,
     images     |-> [i \in 1..Len(getImageUrls) |->
                        [imageUrl |-> getImageUrls[i], id |-> <<"image-", i - 1>>]]]

NextSlot == CHOOSE s \in Slots : subs[s].pc = "idle" /\ \A t \in Slots : t < s => subs[t].pc # "idle"

\* A submit event of the form: handleSubmit up to `await onUpdate(body)`.
handleSubmitWith(body) ==
    /\ rendered.view = "form"
    /\ ~ButtonsDisabled
    /\ \E s \in Slots : subs[s].pc = "idle"
    /\ IF SubmitGuardPasses
       THEN /\ isSubmitting' = TRUE
            /\ subs' = [subs EXCEPT ![NextSlot] =
                           [pc |-> "awaiting", cancels |-> 0]]
            /\ sent' = body
       ELSE UNCHANGED <<isSubmitting, subs, sent>>
    /\ UNCHANGED <<fetchVars, event, externalError, opsDone, isOpen, product,
                   externalLoading, fetched, formData, images, isUploading,
                   uploadError, filesAdded, showSuccess, rendered, toasts>>

\* handleSubmit where the content of the request is not observed.
handleSubmit == handleSubmitWith(sent)

\* handleSubmit where onUpdate's argument is observed.
handleSubmitSending == handleSubmitWith(reqBody)

\* onUpdate resolved: setShowSuccess(true), toast.success, setTimeout(.., 1200);
\* finally setIsSubmitting(false).
UpdateResolved(s) ==
    /\ subs[s].pc = "awaiting"
    /\ subs' = [subs EXCEPT ![s].pc = "timer"]
    /\ showSuccess' = TRUE
    /\ toasts' = [toasts EXCEPT !.success = @ + 1]
    /\ isSubmitting' = FALSE
    /\ UNCHANGED <<fetchVars, event, auxVars, isOpen, product, externalLoading, fetched, formData,
                   images, isUploading, uploadError, filesAdded, rendered>>

\* The catch block, mutated: a failed update is shown as a success.
CatchShowsSuccess ==
    /\ toasts' = [toasts EXCEPT !.error = @ + 1]
    /\ showSuccess' = TRUE
    /\ UNCHANGED <<formData, images>>

\* The catch block, mutated: a failed update also drops what the user entered.
CatchResetsForm ==
    /\ toasts' = [toasts EXCEPT !.error = @ + 1]
    /\ formData' = IF formData.present THEN ListingForm ELSE formData
    /\ images' = ListingImages
    /\ UNCHANGED showSuccess

\* catch (error) { console.error(..); toast.error("Failed to update product.") }
Catch ==
    /\ toasts' = [toasts EXCEPT !.error = @ + 1]
    /\ UNCHANGED <<formData, images, showSuccess>>

\* onUpdate rejected, mutated: no finally block, isSubmitting stays as it was.
UpdateRejectedNoFinally(s) ==
    /\ subs[s].pc = "awaiting"
    /\ subs' = [subs EXCEPT ![s].pc = "rejected"]
    /\ Catch
    /\ UNCHANGED <<fetchVars, event, auxVars, isOpen, product, externalLoading, fetched,
                   isUploading, uploadError, filesAdded, rendered, isSubmitting>>

\* onUpdate rejected: the catch block; finally setIsSubmitting(false).
UpdateRejected(s) ==
    /\ subs[s].pc = "awaiting"
    /\ subs' = [subs EXCEPT ![s].pc = "rejected"]
    /\ Catch
    /\ isSubmitting' = FALSE
    /\ UNCHANGED <<fetchVars, event, auxVars, isOpen, product, externalLoading, fetched,
                   isUploading, uploadError, filesAdded, rendered>>

\* The success timer, mutated: a repeating timer (setInterval) stays armed.
TimerRepeats(sub) ==
    [sub EXCEPT !.pc = IF sub.cancels >= 1 THEN "closed" ELSE "timer",
                !.cancels = @ + 1]

\* setTimeout's callback runs once: the timer is spent.
TimerSpent(sub) == [sub EXCEPT !.pc = "closed", !.cancels = @ + 1]

\* setTimeout(() => { setShowSuccess(false); onCancel(); }, 1200)
TimerFire(s) ==
    /\ subs[s].pc = "timer"
    /\ subs' = [subs EXCEPT ![s] = TimerSpent(subs[s])]
    /\ showSuccess' = FALSE
    /\ onCancel
    /\ UNCHANGED <<fetchVars, event, auxVars, product, externalLoading, fetched, formData, images,
                   isUploading, uploadError, filesAdded, isSubmitting, rendered,
                   toasts>>

\* ---- the close controls
\* The Cancel button of the form: disabled={isSubmitting || isUploading}.
CancelButton ==
    /\ rendered.view = "form"
    /\ ~ButtonsDisabled
    /\ onCancel
    /\ UNCHANGED <<fetchVars, event, auxVars, product, externalLoading, fetched, formData, images,
                   isUploading, uploadError, filesAdded, showSuccess, isSubmitting,
                   rendered, subs, toasts>>

\* The top-right close button of the form: onClick={onCancel}, never disabled.
CloseButton ==
    /\ rendered.view = "form"
    /\ onCancel
    /\ UNCHANGED <<fetchVars, event, auxVars, product, externalLoading, fetched, formData, images,
                   isUploading, uploadError, filesAdded, showSuccess, isSubmitting,
                   rendered, subs, toasts>>

\* The Close button of the no-data panel.
ErrorClose ==
    /\ rendered.view = "error"
    /\ onCancel
    /\ UNCHANGED <<fetchVars, event, auxVars, product, externalLoading, fetched, formData, images,
                   isUploading, uploadError, filesAdded, showSuccess, isSubmitting,
                   rendered, subs, toasts>>

\* ======================================================= specifications
FetchIdle ==
    /\ mounted = FALSE
    /\ productId = ""
    /\ enabled = FALSE
    /\ swrData = [k \in Keys |-> "undef"]
    /\ swrError = [k \in Keys |-> FALSE]
    /\ FETCH = [k \in Keys |-> 0]
    /\ requests = {}
    /\ rafPending = {}
    /\ retryPending = {}
    /\ nreq = 0

\* The modal after its first render: hidden, the fetch under way; with a
\* fallback product the form and the images are seeded from it.
InitModal ==
    /\ isOpen = FALSE
    /\ product \in BOOLEAN
    /\ externalLoading \in {"undefined", "true", "false"}
    /\ fetched = "loading"
    /\ formData = IF product THEN ListingForm ELSE NoForm
    /\ images = IF product THEN ListingImages ELSE <<>>
    /\ isUploading = FALSE
    /\ uploadError = FALSE
    /\ filesAdded = 0
    /\ showSuccess = FALSE
    /\ isSubmitting = FALSE
    /\ rendered = [view |-> "hidden", isSubmitting |-> FALSE, isUploading |-> FALSE,
                   hasForm |-> product, message |-> ""]
    /\ subs = [s \in Slots |-> IdleSub]
    /\ toasts = [success |-> 0, error |-> 0]

\* What the dedicated specifications observe, at rest.
NoReq == [title |-> "", negotiable |-> FALSE, images |-> <<>>]
AuxIdle ==
    /\ externalError = "undefined"
    /\ sent = NoReq
    /\ opsDone = 0

Init == FetchIdle /\ InitModal /\ AuxIdle /\ event = "init"

Next ==
    \/ Render
    \/ Open
    \/ \E out \in {"listing", "none", "error"} : FetchSettle(out)
    \/ \E v \in Titles : handleChange(v)
    \/ \E big \in BOOLEAN : handleFileSelect(big)
    \/ beginUpload
    \/ \E ok \in BOOLEAN : UploadSettle(ok)
    \/ handleSubmit
    \/ \E s \in Slots : UpdateResolved(s)
    \/ \E s \in Slots : UpdateRejected(s)
    \/ \E s \in Slots : TimerFire(s)
    \/ CancelButton
    \/ CloseButton
    \/ ErrorClose

Spec == Init /\ [][Next]_vars

InitFetch ==
    /\ mounted = FALSE
    /\ productId \in PropIds
    /\ enabled \in BOOLEAN
    /\ swrData = [k \in Keys |-> "undef"]
    /\ swrError = [k \in Keys |-> FALSE]
    /\ FETCH = [k \in Keys |-> 0]
    /\ requests = {}
    /\ rafPending = {}
    /\ retryPending = {}
    /\ nreq = 0
    /\ InitModal /\ product = FALSE /\ externalLoading = "undefined"
    /\ AuxIdle
    /\ event = "init"

NextFetch ==
    \/ Mount
    \/ \E pid \in PropIds, en \in BOOLEAN : SetProps(pid, en)
    \/ refetch
    \/ \E k \in Keys : RafFire(k)
    \/ \E r \in requests, res \in Responses : Settle(r, res)
    \/ \E k \in Keys : DedupeExpire(k)
    \/ \E k \in Keys : RetryFire(k)

SpecFetch == InitFetch /\ [][NextFetch]_vars

\* ---- the modal's render under changing loading / error props
LoadingProps == {"undefined", "true", "false"}
ErrorProps == {"undefined", "null", "false", "error"}

\* The caller passes another loading prop.
SetLoadingProp(v) ==
    /\ v # externalLoading
    /\ externalLoading' = v
    /\ UNCHANGED <<fetchVars, event, externalError, sent, opsDone, isOpen, product,
                   fetched, formData, images, isUploading, uploadError, filesAdded,
                   showSuccess, isSubmitting, rendered, subs, toasts>>

\* The caller passes another error prop.
SetErrorProp(v) ==
    /\ v # externalError
    /\ externalError' = v
    /\ UNCHANGED <<fetchVars, event, sent, opsDone, isOpen, product, externalLoading,
                   fetched, formData, images, isUploading, uploadError, filesAdded,
                   showSuccess, isSubmitting, rendered, subs, toasts>>

InitRender ==
    /\ FetchIdle /\ InitModal /\ event = "init"
    /\ externalError \in ErrorProps
    /\ sent = NoReq
    /\ opsDone = 0

NextRender ==
    \/ Render
    \/ Open
    \/ \E out \in {"listing", "none", "error"} : FetchSettle(out)
    \/ \E v \in LoadingProps : SetLoadingProp(v)
    \/ \E v \in ErrorProps : SetErrorProp(v)
    \/ ErrorClose

SpecRender == InitRender /\ [][NextRender]_vars

\* ---- the request handed to onUpdate, over the form values and image lists
\* Image lists of a loaded form: existing images, then possibly a file the
\* user added, uploaded or not.
MaxListed == 2
AddedStatuses == {"pending", "uploaded", "failed"}
ImageLists ==
    {RemoteImages(n) : n \in 0..MaxListed} \cup
    {Append(RemoteImages(n), [id |-> 1, status |-> st, position |-> n]) :
        n \in 0..MaxListed, st \in AddedStatuses}

InitRequest ==
    /\ FetchIdle /\ event = "init"
    /\ isOpen = TRUE
    /\ product = FALSE
    /\ externalLoading = "undefined"
    /\ externalError = "undefined"
    /\ fetched = "listing"
    /\ formData \in [present : {TRUE}, title : Titles, negotiable : NegotiableValues]
    /\ images \in ImageLists
    /\ isUploading = FALSE
    /\ uploadError = FALSE
    /\ filesAdded = 0
    /\ showSuccess = FALSE
    /\ isSubmitting = FALSE
    /\ rendered = Snapshot
    /\ subs = [s \in Slots |-> IdleSub]
    /\ toasts = [success |-> 0, error |-> 0]
    /\ sent = NoReq
    /\ opsDone = 0

NextRequest ==
    \/ Render
    \/ \E v \in Titles : handleChange(v)
    \/ handleSubmitSending
    \/ \E s \in Slots : UpdateRejected(s)

SpecRequest == InitRequest /\ [][NextRequest]_vars

\* ---- the image manager under add / remove / set main / reorder
\* The listing has no image, a few, or as many as the manager may hold.
InitialCounts == {0, 2, 9, 10}

InitImages ==
    /\ FetchIdle /\ event = "init"
    /\ isOpen = TRUE
    /\ product = FALSE
    /\ externalLoading = "undefined"
    /\ externalError = "undefined"
    /\ fetched = "listing"
    /\ formData = ListingForm
    /\ images \in {RemoteImages(n) : n \in InitialCounts}
    /\ isUploading = FALSE
    /\ uploadError = FALSE
    /\ filesAdded = 0
    /\ showSuccess = FALSE
    /\ isSubmitting = FALSE
    /\ rendered = Snapshot
    /\ subs = [s \in Slots |-> IdleSub]
    /\ toasts = [success |-> 0, error |-> 0]
    /\ sent = NoReq
    /\ opsDone = 0

NextImages ==
    \/ Render
    \/ \E tooLarge \in BOOLEAN : handleFileSelect(tooLarge)
    \/ beginUpload
    \/ \E ok \in BOOLEAN : UploadSettle(ok)
    \/ \E i \in 1..maxImages : removeImage(i)
    \/ \E i \in 1..maxImages : setMainImage(i)
    \/ \E i, j \in 1..maxImages : handleDrop(i, j)

SpecImages == InitImages /\ [][NextImages]_vars

\* --------------------------------------------------------- modal: claims
\* onUpdate calls that have not settled.
Outstanding == {s \in Slots : subs[s].pc = "awaiting"}
\* This step passes handleSubmit's guard and calls onUpdate for submission s.
Invoked(s) == subs[s].pc = "idle" /\ subs'[s].pc = "awaiting"

\* C1: a submit event that arrives while a submission is in flight is a
\* no-op, also before the re-render with isSubmitting = true: at most one
\* onUpdate call is outstanding at any moment.
C1_AtMostOneOutstanding == Cardinality(Outstanding) <= 1

\* C2: the upload phase is over before the request is built and passed to
\* onUpdate: when onUpdate is invoked no upload is running, no entry is
\* pending or uploading, and the request references hosted URLs only.
C2_UploadCompleteBeforeUpdate ==
    [][\A s \in Slots : Invoked(s) =>
          /\ ~isUploading
          /\ Statuses({"pending", "uploading"}) = {}
          /\ \A i \in 1..Len(reqBody.images) :
                reqBody.images[i].imageUrl.kind = "hosted"]_vars

\* C3: if the upload phase fails during a submission, the submit flow reports
\* an error, onUpdate is not invoked for that submission and the modal is
\* back in ready (isSubmitting false).
C3_UploadFailureAbortsSubmit ==
    [][(isSubmitting /\ isUploading /\ ~isUploading' /\ uploadError') =>
          /\ Outstanding' = {}
          /\ ~isSubmitting'
          /\ toasts'.error = toasts.error + 1]_vars

\* C4: when onUpdate rejects, isSubmitting is reset, the error is surfaced
\* (one toast.error), the success state is not entered, no timer and no
\* onCancel is scheduled, and the step changes neither the form fields nor
\* the image list; the open form is ready again unless a success is showing.
C4_RejectedUpdateKeepsFormAndImages ==
    [][\A s \in Slots : (subs[s].pc = "awaiting" /\ subs'[s].pc = "rejected") =>
          /\ ~isSubmitting'
          /\ toasts'.error = toasts.error + 1
          /\ toasts'.success = toasts.success
          /\ showSuccess' = showSuccess
          /\ isOpen' = isOpen
          /\ \A t \in Slots : subs'[t].pc = "timer" => subs[t].pc = "timer"
          /\ formData' = formData
          /\ images' = images
          /\ (View' = "form" /\ ~showSuccess) => ModalState' = "ready"]_vars

\* C4 witness: an update was rejected after the user had retitled the listing
\* and added a file; both are still there and isSubmitting is false.
C4_Witness_RejectedWithEdits ==
    /\ \E s \in Slots : subs[s].pc = "rejected"
    /\ formData.title = "Desk"
    /\ Len(images) = 2
    /\ ~isSubmitting
    /\ toasts.error >= 1

\* C5: when onUpdate resolves the success state is entered (showSuccess set,
\* isSubmitting reset, one toast.success) and the timer is armed; the timer
\* fires once, clearing showSuccess and calling onCancel; a submission calls
\* onUpdate once, and onCancel comes from its timer once, only after its
\* onUpdate resolved.
C5_SuccessThenTimerCancelsOnce ==
    [][\A s \in Slots :
          /\ (subs[s].pc = "awaiting" /\ subs'[s].pc = "timer") =>
                (showSuccess' /\ ~isSubmitting' /\ toasts'.success = toasts.success + 1)
          /\ subs'[s].pc = "timer" => subs[s].pc \in {"awaiting", "timer"}
          /\ subs'[s].cancels # subs[s].cancels =>
                /\ subs[s].pc = "timer" /\ subs'[s].pc = "closed"
                /\ subs[s].cancels = 0 /\ subs'[s].cancels = 1
                /\ ~showSuccess' /\ ~isOpen'
          /\ subs'[s].pc = "closed" => subs'[s].cancels = 1
          /\ subs'[s].pc = "awaiting" => subs[s].pc \in {"idle", "awaiting"}
          /\ subs'[s].pc = "idle" => subs[s].pc = "idle"]_vars

\* C5 witness: a submission's timer has fired: the success flag is cleared and
\* the modal closed by the one onCancel call of that timer.
C5_Witness_TimerFired ==
    /\ \E s \in Slots : subs[s].pc = "closed" /\ subs[s].cancels = 1
    /\ ~showSuccess
    /\ ~isOpen
    /\ toasts.success >= 1

\* C6: while a submission is in flight, and rendered as such, no user action
\* closes the modal: a step that hides it is the success timer's (the only
\* onCancel that also moves a submission on).
C6_NoUserCancelWhileSubmitting ==
    [][(isSubmitting /\ rendered = Snapshot /\ isOpen /\ ~isOpen') => subs' # subs]_vars

\* C7: from the success state, rendered as such, the only next state is
\* hidden: no new submission starts during the success window.
C7_SuccessLeadsOnlyToHidden ==
    [][(ModalState = "success" /\ rendered = Snapshot) =>
          ModalState' \in {"success", "hidden"}]_vars

\* C8 as stated: once loading is over, a fetch that failed or gave no entity
\* puts the open modal in the error state, and after a failed fetch onUpdate
\* is never invoked.
C8_FailedFetchShowsError ==
    /\ (isOpen /\ ~isLoading /\ fetched \in {"error", "none"}) => View = "error"
    /\ fetched = "error" => \A s \in Slots : subs[s].pc = "idle"

\* C8 amended: the same when no fallback product is supplied: the open modal
\* is in the error state once loading is over; the rendered error panel offers
\* its Close button (onCancel) and no other control; and onUpdate is never
\* invoked while neither the fetch nor the product prop has given a listing.
C8_NoDataShowsError ==
    /\ (isOpen /\ ~isLoading /\ fetched \in {"error", "none"} /\ ~product) =>
          View = "error"
    /\ rendered.view = "error" =>
          /\ ENABLED ErrorClose
          /\ ~ENABLED handleSubmit
          /\ ~ENABLED CancelButton
          /\ ~ENABLED CloseButton
          /\ ~ENABLED (\E v \in Titles : handleChange(v))
          /\ ~ENABLED (\E big \in BOOLEAN : handleFileSelect(big))
    /\ (fetched # "listing" /\ ~product) => \A s \in Slots : subs[s].pc = "idle"

\* C8 witness: no fallback product, the fetch failed, and the open modal has
\* rendered the error panel.
C8_Witness_ErrorPanel ==
    isOpen /\ ~product /\ fetched = "error" /\ ~isLoading /\ rendered.view = "error"


\* C11 as stated: the open modal is in the loading state exactly while the
\* fetcher has no data yet and no external loading value is supplied.
C11_LoadingOnlyWithoutExternalValue ==
    isOpen => (View = "loading" <=> (fetched = "loading" /\ externalLoading = "undefined"))

\* C11 amended: loading and error are resolved by precedence, external value
\* if supplied, else the fetcher's.  What the open modal has rendered shows
\* loading exactly when the external loading value is true, or none is
\* supplied and the fetcher is loading (an explicit false shows no loading);
\* and its no-data panel reports a load failure exactly when the external
\* error is a truthy value, or none is supplied and the fetcher has an error.
C11_ExternalValueTakesPrecedence ==
    (isOpen /\ rendered = Snapshot) =>
        /\ rendered.view = "loading" <=>
              CASE externalLoading = "true"  -> TRUE
                [] externalLoading = "false" -> FALSE
                [] OTHER                     -> fetched = "loading"
        /\ rendered.view = "error" =>
              (rendered.message = "Failed to load product" <=>
                  CASE externalError = "error" -> TRUE
                    [] externalError = "false" -> FALSE
                    [] OTHER                   -> fetched = "error")

\* C11 witness: an explicit external false is supplied for loading and for
\* error while the fetcher is still loading, resp. has failed: the rendered
\* modal shows no spinner.
C11_Witness_ExplicitFalseOverrides ==
    /\ isOpen /\ rendered = Snapshot
    /\ externalLoading = "false" /\ fetched = "loading"
    /\ externalError = "false"
    /\ rendered.view = "error" /\ rendered.message = "Product not found"

\* The step in which handleSubmit invokes onUpdate.
Submitted == \E s \in Slots : Invoked(s)

\* C12: the negotiable field of the request passed to onUpdate is a boolean:
\* the form value when that is a boolean, true for the string "true", and
\* false for the string "false" and for every other non-boolean value.
C12_NegotiableIsCoercedBoolean ==
    [][Submitted =>
        /\ sent'.negotiable \in BOOLEAN
        /\ formData.negotiable.type = "boolean" =>
              sent'.negotiable = formData.negotiable.b
        /\ formData.negotiable = Str("true") => sent'.negotiable = TRUE
        /\ (formData.negotiable.type # "boolean" /\ formData.negotiable # Str("true")) =>
              sent'.negotiable = FALSE]_vars

\* C12 witness: a form whose negotiable is a string other than "true" and
\* "false" was submitted and the request carries false.
C12_Witness_OtherStringSent ==
    /\ \E s \in Slots : subs[s].pc # "idle"
    /\ formData.negotiable = Str("yes")
    /\ sent.negotiable = FALSE

\* C13: the images field of the request passed to onUpdate has one element
\* per URL of getImageUrls() at submit time, in the same order; element i
\* (from zero) is {imageUrl: the i-th URL, id: "image-i"}; the ids are unique
\* and the main image, at position 0, is first.
C13_ImagesFollowGetImageUrls ==
    [][Submitted =>
        /\ Len(sent'.images) = Len(getImageUrls)
        /\ \A i \in 1..Len(getImageUrls) :
              /\ sent'.images[i].imageUrl = getImageUrls[i]
              /\ sent'.images[i].id = <<"image-", i - 1>>
        /\ \A i, j \in 1..Len(sent'.images) :
              i # j => sent'.images[i].id # sent'.images[j].id
        /\ \A i \in 1..Len(images) :
              images[i].position = 0 =>
                  sent'.images[1].imageUrl = EntryUrl(images[i])]_vars

\* C13 witness: a request with three images was sent, the last one a file
\* that was added and uploaded.
C13_Witness_ThreeImagesSent ==
    /\ \E s \in Slots : subs[s].pc # "idle"
    /\ Len(sent.images) = 3
    /\ sent.images[3] = [imageUrl |-> [kind |-> "hosted", n |-> 1], id |-> <<"image-", 2>>]

C16_ClosedModalTimerDoesNotCancel ==
    [][\A s \in Slots :
          (subs[s].pc = "timer" /\ ~isOpen) => subs'[s].cancels = subs[s].cancels]_vars

\* C17: every submission that passed the guard and whose onUpdate call
\* settles ends in the try or in the catch block with isSubmitting reset to
\* false, and the modal is never left submitting once no call is outstanding.
C17_SettledSubmissionResetsSubmitting ==
    [][/\ \A s \in Slots :
             (subs[s].pc = "awaiting" /\ subs'[s].pc # "awaiting") =>
                 (~isSubmitting' /\ subs'[s].pc \in {"timer", "rejected"})
       /\ Outstanding' = {} => ~isSubmitting']_vars

\* C17 witness: one submission was rejected, a later one resolved, and the
\* modal is not submitting.
C17_Witness_RejectedThenResolved ==
    /\ \E s, t \in Slots : subs[s].pc = "rejected" /\ subs[t].pc = "timer"
    /\ Outstanding = {}
    /\ ~isSubmitting

\* C18: onUpdate is invoked only when form data exists: in every state where
\* formData is absent no submission has set isSubmitting or invoked onUpdate;
\* and showSuccess is true only after some onUpdate call resolved.
C18_NoSubmitWithoutFormData ==
    /\ ~formData.present => (~isSubmitting /\ \A s \in Slots : subs[s].pc = "idle")
    /\ showSuccess => \E s \in Slots : subs[s].pc \in {"timer", "closed"}

\* C18 witness: after a rejected update, which showed no success, a second
\* update resolved and the success state is on.
C18_Witness_SuccessAfterResolvedUpdate ==
    /\ formData.present
    /\ showSuccess
    /\ toasts.error >= 1
    /\ \E s \in Slots : subs[s].pc = "timer"

\* C15: when the underlying request returns a falsy response or throws, the
\* fetcher ends in an error outcome: the error of the request's key is set,
\* errorProduct is set while that key is the hook's key, and no data is taken
\* from the request (the key's data, and so newProductData, stay as they were).
C15_FalsyOrThrownResponseIsError ==
    [][\A r \in requests :
          (r \notin requests' /\ event' \in {"falsy", "throws"}) =>
              /\ swrError'[r.key]
              /\ swrData'[r.key] = swrData[r.key]
              /\ apiUrl(productId, enabled) = r.key =>
                    (errorProduct' /\ newProductData' = newProductData)]_vars

\* C15 witness: a request has just returned a falsy response, none is in
\* flight any more; the hook reports an error and has no listing.
C15_Witness_FalsyResponseSettled ==
    /\ event = "falsy"
    /\ requests = {}
    /\ errorProduct /\ newProductData = "undef"

\* C9: the fetcher never starts a request while productId is empty or enabled
\* is false - on mount, on a change of the props, on refetch() and on SWR's
\* own deferred or retried revalidations: every step that starts a request
\* is taken with a non-empty productId and enabled true.
C9_NoRequestWhenEmptyOrDisabled ==
    [][nreq' # nreq => (productId' # "" /\ enabled')]_vars

\* C9 witness: refetch() was called with an empty productId and enabled true,
\* in a run that had started requests before the id was emptied.
C9_Witness_RefetchOnEmptyId ==
    event = "refetch" /\ productId = "" /\ enabled /\ nreq > 0

\* C10: each change of productId to a new non-empty value, with fetching
\* enabled before and after, starts exactly one request.
C10_ExactlyOneRequestPerIdChange ==
    [][(mounted /\ enabled /\ enabled' /\ productId' # productId /\ productId' # "")
        => nreq' = nreq + 1]_vars

====
